---------------------------- MODULE Spec2Model ----------------------------
(***************************************************************************)
(* Model of robopianist/suite/composite_reward.py: the CompositeReward and *)
(* TieredReward reward aggregators.                                        *)
(*                                                                         *)
(* Rewards are Python floats; the model keeps them in fixed point, one     *)
(* unit = 0.1, so the gate threshold 0.5 is 5.  A reward function is an    *)
(* opaque callable; the model identifies it by a small integer and gives   *)
(* each one a fixed behaviour per physics state (a value, or an exception).*)
(* A Python dict is a sequence of <<key, value>> pairs with distinct keys, *)
(* in insertion order.                                                     *)
(***************************************************************************)
EXTENDS Integers, Sequences, FiniteSets

\* ------------------------------------------------------------------ bounds
NumFns == 2       \* reward functions are 0..NumFns
MaxPhysics == 1   \* physics states are 0..MaxPhysics
MaxKwargs == 2    \* most keyword arguments given to CompositeReward(**kwargs)
MaxOps == 3       \* most operations performed on an aggregator

\* --------------------------------------------------------------- constants
None == -1
Threshold == 5

Names == {"a", "b", "c"}
SlotNames == {"fingering_reward", "forearm_reward", "key_press_reward", "bogus"}
Fns == 0..NumFns
Physics == 0..MaxPhysics

\* ------------------------------------------------- the reward functions
\* RewardFn = Callable[[mjcf.Physics], Reward]: function 0 raises on every
\* physics state but 0; the others return a value.
FnRaises(reward_fn, physics) == reward_fn = 0 /\ physics > 0
FnValue(reward_fn, physics) == 3 * reward_fn + 2 * physics - 1

\* ------------------------------------------------------ Python dict
DictHas(d, k) == \E i \in 1..Len(d) : d[i][1] = k
DictGet(d, k) == d[CHOOSE i \in 1..Len(d) : d[i][1] = k][2]
DictKeys(d) == [i \in 1..Len(d) |-> d[i][1]]

\* d[k] = v: an existing key keeps its position, a new key goes last
DictSet(d, k, v) ==
    IF DictHas(d, k)
    THEN [i \in 1..Len(d) |-> IF d[i][1] = k THEN <<k, v>> ELSE d[i]]
    ELSE Append(d, <<k, v>>)

\* del d[k], for a key that is present
DictDel(d, k) == SelectSeq(d, LAMBDA e : e[1] # k)

VARIABLES
    reward_fns,         \* CompositeReward._reward_fns
    reward_terms,       \* CompositeReward._reward_terms
    last,               \* the last call on the CompositeReward and its outcome
    key_press_reward_,  \* TieredReward's five slots
    sustain_reward_,
    energy_reward_,
    fingering_reward_,
    forearm_reward_,
    tlast,              \* the last call on the TieredReward and its outcome
    nops                \* operations performed so far

compositeVars == <<reward_fns, reward_terms, last>>
tieredVars == <<key_press_reward_, sustain_reward_, energy_reward_,
                fingering_reward_, forearm_reward_, tlast>>
vars == <<reward_fns, reward_terms, last, key_press_reward_,
          sustain_reward_, energy_reward_, fingering_reward_,
          forearm_reward_, tlast, nops>>

\* The record of a call: raised = "" when it returned; value is the reward
\* returned by compute; calls are the reward functions compute invoked, in
\* order (for __init__ its keyword arguments).
Call(op, name, fn, physics, raised, value, calls) ==
    [op |-> op, name |-> name, fn |-> fn, physics |-> physics,
     raised |-> raised, value |-> value, calls |-> calls]

\* one more operation, while the bound allows
Tick == nops < MaxOps /\ nops' = nops + 1

\* ======================================================= CompositeReward

\* add that moves a registered name to the end
AddResultReorders(fns, name, reward_fn) ==
    Append(SelectSeq(fns, LAMBDA e : e[1] # name), <<name, reward_fn>>)

\* CompositeReward.add
AddResult(fns, name, reward_fn) == DictSet(fns, name, reward_fn)

\* the loop of CompositeReward.__init__ over kwargs.items()
RECURSIVE InitFns(_, _)
InitFns(fns, kwargs) ==
    IF kwargs = <<>> THEN fns
    ELSE InitFns(AddResult(fns, kwargs[1][1], kwargs[1][2]), Tail(kwargs))

\* **kwargs: keyword arguments have distinct names
Kwargs ==
    LET Pairs == Names \X Fns
    IN  {kw \in UNION {[1..n -> Pairs] : n \in 0..MaxKwargs} :
            \A i, j \in 1..Len(kw) : kw[i][1] = kw[j][1] => i = j}

\* CompositeReward.remove as dict.pop(name, None) would do it: no KeyError
RemoveResultSilent(fns, name) ==
    [raised |-> "", fns |-> DictDel(fns, name)]

\* CompositeReward.remove: del self._reward_fns[name]
RemoveResult(fns, name) ==
    IF DictHas(fns, name)
    THEN [raised |-> "", fns |-> DictDel(fns, name)]
    ELSE [raised |-> "KeyError", fns |-> fns]

\* the loop of CompositeReward.compute from the i-th registered function on
RECURSIVE ComputeLoop(_, _, _, _, _, _)
ComputeLoop(fns, i, physics, sum_of_rewards, terms, calls) ==
    IF i > Len(fns)
    THEN [raised |-> "", value |-> sum_of_rewards, terms |-> terms,
          calls |-> calls]
    ELSE LET name == fns[i][1]
             reward_fn == fns[i][2]
             called == Append(calls, <<name, reward_fn>>)
         IN  IF FnRaises(reward_fn, physics)
             THEN [raised |-> "FnError", value |-> 0, terms |-> terms,
                   calls |-> called]
             ELSE LET rew == FnValue(reward_fn, physics)
                  IN  ComputeLoop(fns, i + 1, physics, sum_of_rewards + rew,
                                  DictSet(terms, name, rew), called)

\* compute that starts at the second registered function
ComputeResultSkipsFirst(fns, terms, physics) ==
    ComputeLoop(fns, 2, physics, 0, terms, <<>>)

\* compute that starts from an empty snapshot
ComputeResultFresh(fns, terms, physics) ==
    ComputeLoop(fns, 1, physics, 0, <<>>, <<>>)

\* compute that stores no term unless every function returned
ComputeResultRollback(fns, terms, physics) ==
    LET r == ComputeLoop(fns, 1, physics, 0, terms, <<>>)
    IN  IF r.raised = "" THEN r ELSE [r EXCEPT !.terms = terms]

\* compute that iterates from the last registered function to the first
ComputeResultReversed(fns, terms, physics) ==
    ComputeLoop([i \in 1..Len(fns) |-> fns[Len(fns) + 1 - i]], 1, physics, 0,
                terms, <<>>)

\* CompositeReward.compute
ComputeResult(fns, terms, physics) == ComputeLoop(fns, 1, physics, 0, terms, <<>>)

CompositeInit ==
    /\ \E kwargs \in Kwargs :
          /\ reward_fns = InitFns(<<>>, kwargs)
          /\ last = Call("__init__", "", None, None, "", 0, kwargs)
    /\ reward_terms = <<>>

CompositeAdd(name, reward_fn) ==
    /\ Tick
    /\ UNCHANGED tieredVars
    /\ reward_fns' = AddResult(reward_fns, name, reward_fn)
    /\ last' = Call("add", name, reward_fn, None, "", 0, <<>>)
    /\ UNCHANGED reward_terms

CompositeRemove(name) ==
    LET r == RemoveResult(reward_fns, name)
    IN  /\ Tick
        /\ UNCHANGED tieredVars
        /\ reward_fns' = r.fns
        /\ last' = Call("remove", name, None, None, r.raised, 0, <<>>)
        /\ UNCHANGED reward_terms

CompositeCompute(physics) ==
    LET r == ComputeResult(reward_fns, reward_terms, physics)
    IN  /\ Tick
        /\ UNCHANGED tieredVars
        /\ reward_terms' = r.terms
        /\ last' = Call("compute", "", None, physics, r.raised, r.value, r.calls)
        /\ UNCHANGED reward_fns

\* the reward_fns property: returns self._reward_fns itself
GetRewardFns ==
    /\ Tick
    /\ UNCHANGED tieredVars
    /\ last' = Call("reward_fns", "", None, None, "", 0, <<>>)
    /\ UNCHANGED <<reward_fns, reward_terms>>

\* the reward_terms property: returns self._reward_terms itself
GetRewardTerms ==
    /\ Tick
    /\ UNCHANGED tieredVars
    /\ last' = Call("reward_terms", "", None, None, "", 0, <<>>)
    /\ UNCHANGED <<reward_fns, reward_terms>>

\* the caller's `aggregator.reward_terms[name] = v`: the dict the property
\* returned is the aggregator's own
CallerSetItem(name, v) ==
    /\ Tick
    /\ UNCHANGED tieredVars
    /\ reward_terms' = DictSet(reward_terms, name, v)
    /\ UNCHANGED reward_fns
    /\ last' = Call("caller_setitem", name, None, None, "", 0, <<>>)

\* the caller's `del aggregator.reward_fns[name]` or
\* `del aggregator.reward_terms[name]`, for a name that is present
CallerDelItem(which, name) ==
    /\ Tick
    /\ UNCHANGED tieredVars
    /\ IF which = "reward_fns"
       THEN /\ DictHas(reward_fns, name)
            /\ reward_fns' = DictDel(reward_fns, name)
            /\ UNCHANGED reward_terms
       ELSE /\ DictHas(reward_terms, name)
            /\ reward_terms' = DictDel(reward_terms, name)
            /\ UNCHANGED reward_fns
    /\ last' = Call("caller_delitem", name, None, None, "", 0, <<>>)

\* the methods and properties of the class
CompositeNext ==
    \/ \E name \in Names, reward_fn \in Fns : CompositeAdd(name, reward_fn)
    \/ \E name \in Names : CompositeRemove(name)
    \/ \E physics \in Physics : CompositeCompute(physics)
    \/ GetRewardFns
    \/ GetRewardTerms

\* the class, and a caller that writes to the dicts its properties return
AliasedNext ==
    \/ CompositeNext
    \/ \E name \in Names : CallerSetItem(name, 0)
    \/ \E which \in {"reward_fns", "reward_terms"}, name \in Names :
          CallerDelItem(which, name)

\* ========================================================== TieredReward

\* `if self.fingering_reward_`: None is false, a function is true
Truthy(reward_fn) == reward_fn # None

\* the assertion of compute with assertions compiled out
AssertPassesStripped(fingering) == TRUE

\* `if not self.fingering_reward_: assert False`: whether compute gets past it
AssertPasses(fingering) == Truthy(fingering)

\* the gate with >= in place of >
GateOpenNonStrict(key_press_rew) == key_press_rew >= Threshold

\* `if key_press_rew > 0.5`
GateOpen(key_press_rew) == key_press_rew > Threshold

\* the outcome of a compute that stops with an exception
Raised(exc, calls) == [raised |-> exc, value |-> 0, calls |-> calls]

\* TieredReward.compute, statement by statement
TieredComputeResult(key_press, sustain, energy, fingering, forearm, physics) ==
    LET c1 == <<<<"key_press_reward", key_press>>>>
        c2 == Append(c1, <<"sustain_reward", sustain>>)
        c3 == Append(c2, <<"energy_reward", energy>>)
        c4 == IF Truthy(fingering)
              THEN Append(c3, <<"fingering_reward", fingering>>) ELSE c3
        c5 == IF Truthy(forearm)
              THEN Append(c4, <<"forearm_reward", forearm>>) ELSE c4
        key_press_rew == FnValue(key_press, physics)
        sustain_reward == FnValue(sustain, physics)
        energy_reward == FnValue(energy, physics)
        fingering_reward ==
            IF Truthy(fingering) THEN FnValue(fingering, physics) ELSE 0
        forearm_reward ==
            IF Truthy(forearm) THEN FnValue(forearm, physics) ELSE 0
        sum_of_rewards == key_press_rew + sustain_reward + fingering_reward
    IN  IF FnRaises(key_press, physics) THEN Raised("FnError", c1)
        ELSE IF FnRaises(sustain, physics) THEN Raised("FnError", c2)
        ELSE IF FnRaises(energy, physics) THEN Raised("FnError", c3)
        ELSE IF Truthy(fingering) /\ FnRaises(fingering, physics)
             THEN Raised("FnError", c4)
        ELSE IF ~AssertPasses(fingering) THEN Raised("AssertionError", c4)
        ELSE IF Truthy(forearm) /\ FnRaises(forearm, physics)
             THEN Raised("FnError", c5)
        ELSE [raised |-> "",
              value |-> IF GateOpen(key_press_rew)
                        THEN sum_of_rewards + (energy_reward + forearm_reward)
                        ELSE sum_of_rewards,
              calls |-> c5]

\* TieredReward.add with the else branch filling the fingering slot
TieredAddResultOpen(fingering, forearm, name, reward_fn) ==
    IF name = "forearm_reward"
    THEN [raised |-> "", fingering |-> fingering, forearm |-> reward_fn]
    ELSE [raised |-> "", fingering |-> reward_fn, forearm |-> forearm]

\* TieredReward.add
TieredAddResult(fingering, forearm, name, reward_fn) ==
    IF name = "fingering_reward"
    THEN [raised |-> "", fingering |-> reward_fn, forearm |-> forearm]
    ELSE IF name = "forearm_reward"
    THEN [raised |-> "", fingering |-> fingering, forearm |-> reward_fn]
    ELSE [raised |-> "ValueError", fingering |-> fingering, forearm |-> forearm]

\* TieredReward.__init__
TieredInit ==
    /\ key_press_reward_ \in Fns
    /\ sustain_reward_ \in Fns
    /\ energy_reward_ \in Fns
    /\ fingering_reward_ = None
    /\ forearm_reward_ = None
    /\ tlast = Call("__init__", "", None, None, "", 0, <<>>)

TieredAdd(name, reward_fn) ==
    LET r == TieredAddResult(fingering_reward_, forearm_reward_, name, reward_fn)
    IN  /\ Tick
        /\ UNCHANGED compositeVars
        /\ fingering_reward_' = r.fingering
        /\ forearm_reward_' = r.forearm
        /\ tlast' = Call("add", name, reward_fn, None, r.raised, 0, <<>>)
        /\ UNCHANGED <<key_press_reward_, sustain_reward_, energy_reward_>>

\* TieredReward.remove
TieredRemove(name) ==
    /\ Tick
    /\ UNCHANGED compositeVars
    /\ tlast' = Call("remove", name, None, None, "ValueError", 0, <<>>)
    /\ UNCHANGED <<key_press_reward_, sustain_reward_, energy_reward_,
                   fingering_reward_, forearm_reward_>>

TieredCompute(physics) ==
    LET r == TieredComputeResult(key_press_reward_, sustain_reward_,
                                 energy_reward_, fingering_reward_,
                                 forearm_reward_, physics)
    IN  /\ Tick
        /\ UNCHANGED compositeVars
        /\ tlast' = Call("compute", "", None, physics, r.raised, r.value, r.calls)
        /\ UNCHANGED <<key_press_reward_, sustain_reward_, energy_reward_,
                       fingering_reward_, forearm_reward_>>

TieredNext ==
    \/ \E name \in SlotNames, reward_fn \in Fns : TieredAdd(name, reward_fn)
    \/ \E name \in SlotNames : TieredRemove(name)
    \/ \E physics \in Physics : TieredCompute(physics)

\* ======================================================== specifications

\* a CompositeReward under study, no TieredReward
InitComposite ==
    /\ CompositeInit
    /\ key_press_reward_ = None /\ sustain_reward_ = None
    /\ energy_reward_ = None /\ fingering_reward_ = None
    /\ forearm_reward_ = None
    /\ tlast = Call("", "", None, None, "", 0, <<>>)
    /\ nops = 0

SpecComposite == InitComposite /\ [][CompositeNext]_vars

\* the same, with the caller's writes through the returned dicts
SpecAliased == InitComposite /\ [][AliasedNext]_vars

\* a TieredReward under study, no CompositeReward
InitTiered ==
    /\ TieredInit
    /\ reward_fns = <<>> /\ reward_terms = <<>>
    /\ last = Call("", "", None, None, "", 0, <<>>)
    /\ nops = 0

SpecTiered == InitTiered /\ [][TieredNext]_vars

\* =============================================================== claims

\* the sum of what the registered functions return on a physics state
RECURSIVE SumValues(_, _)
SumValues(fns, physics) ==
    IF fns = <<>> THEN 0
    ELSE FnValue(fns[1][2], physics) + SumValues(Tail(fns), physics)

\* a snapshot entry: whether the name is present, and its value
Entry(terms, name) ==
    IF DictHas(terms, name) THEN <<TRUE, DictGet(terms, name)>> ELSE <<FALSE, 0>>

\* the first n entries of a dict
Prefix(d, n) == [i \in 1..n |-> d[i]]

\* C1: a compute of the CompositeReward that completes returns the sum of the
\* values of all registered functions on the given physics state, and
\* reward_terms then maps every registered name to its function's value.
C1_ComputeSumsAndRecords ==
    (last.op = "compute" /\ last.raised = "") =>
        /\ last.value = SumValues(reward_fns, last.physics)
        /\ \A i \in 1..Len(reward_fns) :
              Entry(reward_terms, reward_fns[i][1])
                  = <<TRUE, FnValue(reward_fns[i][2], last.physics)>>

C1_Witness ==
    /\ last.op = "compute" /\ last.raised = ""
    /\ Len(reward_fns) = 3
    /\ reward_fns[1][2] # reward_fns[2][2]
    /\ last.value # 0

\* C4: remove of a name that is not registered raises KeyError and leaves the
\* registered functions, their order and the snapshot as they were.
C4_RemoveAbsentRaises ==
    [][(last'.op = "remove" /\ ~DictHas(reward_fns, last'.name)) =>
           /\ last'.raised = "KeyError"
           /\ reward_fns' = reward_fns
           /\ reward_terms' = reward_terms]_vars

C4_Witness ==
    /\ last.op = "remove" /\ last.raised = "KeyError"
    /\ Len(reward_fns) = 2
    /\ reward_terms # <<>>

\* C6: remove and compute never clear or change the snapshot entry of a name
\* that is not registered; a compute does not invoke an unregistered name and
\* returns the sum over the registered names only; a successful remove
\* unregisters the name and keeps its snapshot entry.
C6_RemovedTermRetained ==
    [][(last'.op \in {"remove", "compute"}) =>
           /\ \A name \in Names :
                 ~DictHas(reward_fns', name) =>
                     /\ Entry(reward_terms', name) = Entry(reward_terms, name)
                     /\ \A i \in 1..Len(last'.calls) : last'.calls[i][1] # name
           /\ (last'.op = "compute" /\ last'.raised = "") =>
                 last'.value = SumValues(reward_fns', last'.physics)
           /\ (last'.op = "remove" /\ last'.raised = "") =>
                 ~DictHas(reward_fns', last'.name)]_vars

C6_Witness ==
    /\ last.op = "compute" /\ last.raised = ""
    /\ reward_fns # <<>>
    /\ \E name \in Names :
          /\ ~DictHas(reward_fns, name)
          /\ DictHas(reward_terms, name)
          /\ DictGet(reward_terms, name) # 0
          /\ last.value # DictGet(reward_terms, name)

\* r, the outcome of a compute, has invoked nothing but reward_fn under the
\* name, at most once, and if it returned it has invoked it, returned sum
\* and recorded reward_fn's value under the name
NextComputeUsesOnly(r, name, reward_fn, physics, sum) ==
    LET calls == r.calls
        mine == {i \in 1..Len(calls) : calls[i][1] = name}
    IN  /\ Cardinality(mine) <= 1
        /\ \A i \in mine : calls[i][2] = reward_fn
        /\ r.raised = "" =>
              /\ Cardinality(mine) = 1
              /\ r.value = sum
              /\ Entry(r.terms, name) = <<TRUE, FnValue(reward_fn, physics)>>

\* C7: add of a name that is already registered replaces its function in
\* place: as many terms as before, every name at its position, the other
\* functions untouched; a compute that comes next invokes the new function
\* once under that name, and when it completes the name's value is counted
\* in the sum and recorded in reward_terms.
C7_OverwriteInPlace ==
    [][(last'.op = "add" /\ DictHas(reward_fns, last'.name)) =>
           /\ Len(reward_fns') = Len(reward_fns)
           /\ DictKeys(reward_fns') = DictKeys(reward_fns)
           /\ \A i \in 1..Len(reward_fns) :
                 reward_fns'[i][2] = IF reward_fns[i][1] = last'.name
                                     THEN last'.fn ELSE reward_fns[i][2]
           /\ \A physics \in Physics :
                 \A r \in {ComputeResult(reward_fns', reward_terms', physics)} :
                    NextComputeUsesOnly(r, last'.name, last'.fn, physics,
                                        SumValues(reward_fns', physics))]_vars

\* the last call added, under the name registered first, a function that
\* cannot have produced the value recorded for that name
C7_Witness ==
    /\ last.op = "add"
    /\ Len(reward_fns) >= 2
    /\ last.name = reward_fns[1][1]
    /\ DictHas(reward_terms, last.name)
    /\ \A physics \in Physics :
          DictGet(reward_terms, last.name) # FnValue(last.fn, physics)

\* C9: when the k-th registered function raises during compute, the compute
\* raises, it has invoked the first k functions and no later one, the entries
\* of the k-1 names before it hold this call's values, the entries of the
\* failing name and of every later name are what they were, and the
\* registered functions are unchanged.
C9_RaiseStopsCompute ==
    [][\A k \in 1..Len(reward_fns) :
           ( /\ last'.op = "compute"
             /\ FnRaises(reward_fns[k][2], last'.physics)
             /\ \A i \in 1..(k - 1) : ~FnRaises(reward_fns[i][2], last'.physics) )
           =>
           /\ last'.raised = "FnError"
           /\ last'.calls = Prefix(reward_fns, k)
           /\ \A i \in 1..(k - 1) :
                 Entry(reward_terms', reward_fns[i][1])
                     = <<TRUE, FnValue(reward_fns[i][2], last'.physics)>>
           /\ \A i \in k..Len(reward_fns) :
                 Entry(reward_terms', reward_fns[i][1])
                     = Entry(reward_terms, reward_fns[i][1])
           /\ reward_fns' = reward_fns]_vars

C9_Witness ==
    /\ last.op = "compute" /\ last.raised = "FnError"
    /\ Len(reward_fns) = 3
    /\ Len(last.calls) = 2
    /\ Entry(reward_terms, reward_fns[1][1])
          = <<TRUE, FnValue(reward_fns[1][2], last.physics)>>
    /\ DictHas(reward_terms, reward_fns[2][1])
    /\ DictHas(reward_terms, reward_fns[3][1])
    /\ DictGet(reward_terms, reward_fns[3][1])
          # FnValue(reward_fns[3][2], last.physics)

\* C10: the evaluation order is the registration order.  The names given at
\* construction are registered in the order given; add of a name that is not
\* registered (never registered, or removed since) puts it last; add of a
\* registered name and remove keep the others in order; compute invokes the
\* registered functions from the first on, each once, in that order, all of
\* them when it completes.
C10_RegistrationOrder ==
    /\ [](last.op = "__init__" =>
             DictKeys(reward_fns) = DictKeys(last.calls))
    /\ [][/\ last'.op = "add" =>
                DictKeys(reward_fns') =
                    IF DictHas(reward_fns, last'.name)
                    THEN DictKeys(reward_fns)
                    ELSE Append(DictKeys(reward_fns), last'.name)
          /\ last'.op = "remove" =>
                DictKeys(reward_fns') =
                    SelectSeq(DictKeys(reward_fns), LAMBDA n : n # last'.name)
          /\ last'.op = "compute" =>
                /\ Len(last'.calls) <= Len(reward_fns)
                /\ last'.calls = Prefix(reward_fns, Len(last'.calls))
                /\ last'.raised = "" => Len(last'.calls) = Len(reward_fns)]_vars

\* a re-registered name is last: "a" was computed before "b" was, and is now
\* registered after it
C10_Witness ==
    /\ last.op = "add" /\ last.name = "a"
    /\ DictKeys(reward_fns) = <<"b", "a">>
    /\ DictKeys(reward_terms) = <<"a", "b">>

\* C8: the dicts the accessors return are read-only views: the snapshot is
\* changed by compute only, the registered functions by add and remove only.
C8_AccessorsReadOnly ==
    [][/\ reward_terms' # reward_terms => last'.op = "compute"
       /\ reward_fns' # reward_fns => last'.op \in {"add", "remove"}]_vars

\* the five slots of the TieredReward
Slots == <<key_press_reward_, sustain_reward_, energy_reward_,
           fingering_reward_, forearm_reward_>>

C3_ComputeNeedsFingering ==
    (tlast.op = "compute" /\ fingering_reward_ = None) => tlast.raised # ""

\* no reward function raised: the assertion did, with forearm registered
C3_Witness ==
    /\ tlast.op = "compute" /\ tlast.raised = "AssertionError"
    /\ fingering_reward_ = None /\ forearm_reward_ # None
    /\ Len(tlast.calls) = 3

==========================================================================
